---- MODULE Spec2Model ----
(***************************************************************************)
(* Model of src/lambda.py: the cost-optimization digest handler            *)
(* (lambda_handler), the aggregation/rendering function                    *)
(* (format_recommendation_summaries), the narrator (get_bedrock_summary),  *)
(* the CSV serialisation and the publisher (send_email).                   *)
(*                                                                         *)
(* Three specifications share the variables:                               *)
(*   Spec     one invocation of lambda_handler, step by step;              *)
(*   SpecFmt  format_recommendation_summaries applied to bounded inputs;   *)
(*   SpecCsv  the CSV block of the handler applied to bounded findings.    *)
(*                                                                         *)
(* Money amounts are Python floats.  They are modelled as binary floating  *)
(* point numbers with a MantBits-bit significand, round-to-nearest,        *)
(* ties-to-even, written as integers counting quarter dollars (10.5 is 42, *)
(* 20.25 is 81).  Amounts are non-negative.                                *)
(***************************************************************************)
EXTENDS Integers, Sequences, FiniteSets, TLC

VARIABLES pc, summaries, findings, page, listed, detail_failed, drained,
          bedrock_summary, csv_data, calls, s3_objects, result, escaped,
          resource_summary, table_html, total_savings

vars == <<pc, summaries, findings, page, listed, detail_failed, drained,
          bedrock_summary, csv_data, calls, s3_objects, result, escaped,
          resource_summary, table_html, total_savings>>

----------------------------------------------------------------------------
(* Bounds *)

MantBits == 7

MaxSummaries == 3

MaxFindings == 2

MaxCatalogSummaries == 2

MaxIds == 3

MaxPageItems == 2

MaxCsvFindings == 3

----------------------------------------------------------------------------
(* Values *)

\* Python's None: the value of a name not yet bound, and a null field.
None == "<None>"

\* dict.get(key, default)
Get(d, key, default) == IF key \in DOMAIN d THEN d[key] ELSE default

\* Code-point order of the strings that the code sorts (str.__lt__):
\* upper-case letters come before lower-case ones.
StrOrder ==
  << "Rightsize", "Stop", "Unknown", "actionType", "currentResourceType",
     "estimatedMonthlySavings", "recommendationId", "resourceId" >>

StrRank(s) == CHOOSE i \in 1..Len(StrOrder) : StrOrder[i] = s

StrLess(a, b) == StrRank(a) < StrRank(b)

RECURSIVE InsertStr(_, _)
InsertStr(sorted, s) ==
  IF sorted = <<>> THEN <<s>>
  ELSE IF StrLess(s, Head(sorted)) THEN <<s>> \o sorted
  ELSE <<Head(sorted)>> \o InsertStr(Tail(sorted), s)

\* sorted(a set of strings)
RECURSIVE SortedStrings(_)
SortedStrings(S) ==
  IF S = {} THEN <<>>
  ELSE LET s == CHOOSE x \in S : TRUE
       IN InsertStr(SortedStrings(S \ {s}), s)

----------------------------------------------------------------------------
(* Floating point *)

RECURSIVE Pow2(_)
Pow2(k) == IF k = 0 THEN 1 ELSE 2 * Pow2(k - 1)

\* spacing of the floats around n
RECURSIVE UlpFrom(_, _)
UlpFrom(n, u) == IF n < Pow2(MantBits) * u THEN u ELSE UlpFrom(n, 2 * u)

\* the float nearest to the real number n, ties to even
Round(n) ==
  LET u == UlpFrom(n, 1)
      q == n \div u
      r == n % u
  IN IF 2 * r < u THEN q * u
     ELSE IF 2 * r > u THEN (q + 1) * u
     ELSE IF q % 2 = 0 THEN q * u ELSE (q + 1) * u

\* float(x)
ToFloat(x) == Round(x)

\* a + b on floats
FAdd(a, b) == Round(a + b)

\* f"{x:,.2f}": dollars and cents of an amount counted in quarter dollars
Fmt2(x) == << x \div 4, (x % 4) * 25 >>

----------------------------------------------------------------------------
(* Inputs *)

\* summaries as the catalog returns them: group and amount may be missing
SummaryTemplates ==
  { [group |-> "EBS", estimatedMonthlySavings |-> 42],
    [group |-> "EBS", estimatedMonthlySavings |-> 81],
    [group |-> "EC2Instance", estimatedMonthlySavings |-> 1],
    [group |-> "EC2Instance", estimatedMonthlySavings |-> 200],
    [estimatedMonthlySavings |-> 1],
    [group |-> "EBS"],
    [group |-> "Unknown", estimatedMonthlySavings |-> 200] }

\* recommendation details: open-ended key/value bags
FindingShapes ==
  << [currentResourceType |-> "EC2Instance", actionType |-> "Rightsize",
      resourceId |-> "i-1"],
     [currentResourceType |-> "EBS"],
     [actionType |-> "Stop", resourceId |-> None],
     [currentResourceType |-> "EC2Instance", actionType |-> "Stop"],
     [currentResourceType |-> "Unknown", actionType |-> "Rightsize",
      estimatedMonthlySavings |-> "7.5"] >>

FindingTemplates == { FindingShapes[i] : i \in 1..Len(FindingShapes) }

\* summaries the catalog pages of an invocation are drawn from
CatalogSummaries ==
  { [group |-> "EBS", estimatedMonthlySavings |-> 42],
    [group |-> "EC2Instance", estimatedMonthlySavings |-> 200],
    [estimatedMonthlySavings |-> 1] }

\* identifiers the list-recommendations pagination returns
Ids == 1..MaxIds

\* the detail the catalog holds for an identifier
Detail(id) ==
  LET shape == FindingShapes[((id - 1) % Len(FindingShapes)) + 1]
  IN [ k \in DOMAIN shape \cup {"recommendationId"} |->
         IF k = "recommendationId" THEN ToString(id) ELSE shape[k] ]

\* str(e) of the exceptions the services raise
ErrorTexts == { "AccessDenied", "ThrottlingException" }

\* texts the inference service answers with
Narratives == { "narrative" }

RECURSIVE SeqsUpTo(_, _)
SeqsUpTo(S, n) ==
  IF n = 0 THEN { <<>> }
  ELSE LET shorter == SeqsUpTo(S, n - 1)
       IN shorter \cup { Append(s, x) : s \in shorter, x \in S }

----------------------------------------------------------------------------
(* format_recommendation_summaries *)

\* lines 18-21: the actionType values of the findings of one resource type
ActionTypes(fs, resource_type) ==
  { Get(fs[i], "actionType", "Unknown") :
      i \in { j \in 1..Len(fs) :
                Get(fs[j], "currentResourceType", None) = resource_type } }

\* mutant: a repeated resource type replaces the entry instead of adding to it
AddSummary_Overwrite(rs, summary, fs) ==
  LET resource_type == Get(summary, "group", "Unknown")
      savings == ToFloat(Get(summary, "estimatedMonthlySavings", 0))
      action_types == ActionTypes(fs, resource_type)
  IN IF \E i \in 1..Len(rs) : rs[i].resource_type = resource_type
     THEN [ i \in 1..Len(rs) |->
              IF rs[i].resource_type = resource_type
              THEN [ rs[i] EXCEPT !.savings = savings,
                                  !.actions = action_types ]
              ELSE rs[i] ]
     ELSE Append(rs, [ resource_type |-> resource_type,
                       savings |-> savings,
                       actions |-> action_types ])

\* lines 14-30: one iteration of the loop over summaries
AddSummary(rs, summary, fs) ==
  LET resource_type == Get(summary, "group", "Unknown")
      savings == ToFloat(Get(summary, "estimatedMonthlySavings", 0))
      action_types == ActionTypes(fs, resource_type)
  IN IF \E i \in 1..Len(rs) : rs[i].resource_type = resource_type
     THEN [ i \in 1..Len(rs) |->
              IF rs[i].resource_type = resource_type
              THEN [ rs[i] EXCEPT !.savings = FAdd(@, savings),
                                  !.actions = @ \cup action_types ]
              ELSE rs[i] ]
     ELSE Append(rs, [ resource_type |-> resource_type,
                       savings |-> savings,
                       actions |-> action_types ])

\* lines 12-30: the mapping, as the sequence of its items in insertion order
RECURSIVE BuildResourceSummary(_, _, _)
BuildResourceSummary(rs, ss, fs) ==
  IF ss = <<>> THEN rs
  ELSE BuildResourceSummary(AddSummary(rs, Head(ss), fs), Tail(ss), fs)

\* mutant: an item is placed before the items of equal savings
RECURSIVE InsertBySavings_Unstable(_, _)
InsertBySavings_Unstable(sorted, item) ==
  IF sorted = <<>> THEN <<item>>
  ELSE IF Head(sorted).savings > item.savings
       THEN <<Head(sorted)>> \o InsertBySavings_Unstable(Tail(sorted), item)
       ELSE <<item>> \o sorted

\* place an item after every item whose savings is not smaller
RECURSIVE InsertBySavings(_, _)
InsertBySavings(sorted, item) ==
  IF sorted = <<>> THEN <<item>>
  ELSE IF Head(sorted).savings >= item.savings
       THEN <<Head(sorted)>> \o InsertBySavings(Tail(sorted), item)
       ELSE <<item>> \o sorted

\* lines 43-45: sorted(items, key=savings, reverse=True), a stable sort
RECURSIVE SortedBySavings(_)
SortedBySavings(items) ==
  IF items = <<>> THEN <<>>
  ELSE InsertBySavings(SortedBySavings(SubSeq(items, 1, Len(items) - 1)),
                       items[Len(items)])

\* lines 46-56: one table row
RenderRow(item) ==
  [ resource_type |-> item.resource_type,
    actions |-> SortedStrings(item.actions),
    savings |-> Fmt2(item.savings) ]

\* mutant: total_savings is assigned, not accumulated
RECURSIVE AccumulateTotal_Assign(_, _)
AccumulateTotal_Assign(total, items) ==
  IF items = <<>> THEN total
  ELSE AccumulateTotal_Assign(Head(items).savings, Tail(items))

\* lines 40, 48: total_savings accumulated over the rows in rendering order
RECURSIVE AccumulateTotal(_, _)
AccumulateTotal(total, items) ==
  IF items = <<>> THEN total
  ELSE AccumulateTotal(FAdd(total, Head(items).savings), Tail(items))

\* lines 58-63: the grand-total row
TotalRow(total) ==
  [ resource_type |-> "Total", actions |-> <<"-">>, savings |-> Fmt2(total) ]

\* lines 32-65: the rows of the table, the grand-total row last
RenderTable(rs) ==
  LET items == SortedBySavings(rs)
  IN [ i \in 1..Len(items) |-> RenderRow(items[i]) ]
       \o << TotalRow(AccumulateTotal(0, items)) >>

\* lines 11-67: returns (table_html, total_savings)
format_recommendation_summaries(ss, fs) ==
  LET rs == BuildResourceSummary(<<>>, ss, fs)
  IN << RenderTable(rs), AccumulateTotal(0, SortedBySavings(rs)) >>

----------------------------------------------------------------------------
(* CSV block of lambda_handler *)

\* mutant: the field names are the keys of the first finding only
AllKeys_First(fs) == DOMAIN fs[1]

\* lines 337-339: union of the keys of all findings
AllKeys(fs) == UNION { DOMAIN fs[i] : i \in 1..Len(fs) }

\* csv writer: None is written as the empty field, a string as itself
CsvField(v) == IF v = None THEN "" ELSE v

\* DictWriter row: restval '' for a key the finding lacks
CsvRow(fieldnames, finding) ==
  [ j \in 1..Len(fieldnames) |->
      IF fieldnames[j] \in DOMAIN finding
      THEN CsvField(finding[fieldnames[j]]) ELSE "" ]

\* lines 334-344: header row, then one row per finding
CreateCsv(fs) ==
  IF fs # <<>>
  THEN LET fieldnames == SortedStrings(AllKeys(fs))
       IN << fieldnames >> \o [ i \in 1..Len(fs) |-> CsvRow(fieldnames, fs[i]) ]
  ELSE <<>>


----------------------------------------------------------------------------
(* get_bedrock_summary *)

\* lines 73-79
SummaryData(ss) ==
  [ i \in 1..Len(ss) |->
      [ resource_type |-> Get(ss[i], "group", "Unknown"),
        estimated_savings |-> Get(ss[i], "estimatedMonthlySavings", 0) ] ]

\* lines 82-90
FindingData(fs) ==
  [ i \in 1..Len(fs) |->
      [ resource_type |-> Get(fs[i], "currentResourceType", "Unknown"),
        action_type |-> Get(fs[i], "actionType", "Unknown"),
        estimated_savings |-> Get(fs[i], "estimatedMonthlySavings", "0"),
        resource_id |-> Get(fs[i], "resourceId", "") ] ]

\* lines 92-131: the request sent to the inference service
BedrockRequest(ss, fs) ==
  [ summaries |-> SummaryData(ss), detailed_recommendations |-> FindingData(fs) ]

----------------------------------------------------------------------------
(* send_email *)

\* lines 144-269: the MIME message
BuildMessage(ss, narrative, csv, fs) ==
  LET formatted == format_recommendation_summaries(ss, fs)
  IN [ plain |-> narrative,
       banner |-> Fmt2(formatted[2]),
       summary_table |-> formatted[1],
       analysis |-> narrative,
       attachment |-> csv ]

----------------------------------------------------------------------------
(* lambda_handler *)

\* one request to a service: error is None when it returned, else str(e)
Call(op, arg, error) == [ op |-> op, arg |-> arg, error |-> error ]

NoRecommendationsBody == << "No cost optimization recommendations available" >>

\* lines 370-373
SuccessBody(fs) ==
  << "Successfully processed ", ToString(Len(fs)),
     " recommendations and sent summary email" >>

\* lines 381-386: the top-level except clause
ErrorResult(e) ==
  [ statusCode |-> 500, body |-> << "Error processing recommendations: ", e >> ]

Init ==
  /\ pc = "enter"
  /\ summaries = <<>>
  /\ findings = <<>>
  /\ page = <<>>
  /\ listed = <<>>
  /\ detail_failed = {}
  /\ drained = {}
  /\ bedrock_summary = None
  /\ csv_data = None
  /\ calls = <<>>
  /\ s3_objects = {}
  /\ result = None
  /\ escaped = None
  /\ resource_summary = <<>>
  /\ table_html = <<>>
  /\ total_savings = 0

fetchVars == <<summaries, findings, page, listed, detail_failed, drained>>
fmtVars == <<resource_summary, table_html, total_savings>>

\* the except clause of lines 381-386 ends the invocation
Return500(e) ==
  /\ result' = ErrorResult(e)
  /\ pc' = "returned"

\* lines 284-289: the clients are built and the configuration is read
InitClients ==
  /\ pc = "enter"
  /\ pc' = "fetch_summaries"
  /\ UNCHANGED <<fetchVars, bedrock_summary, csv_data, calls, s3_objects,
                 result, escaped, fmtVars>>

\* lines 284-285 stand before the try statement: an exception of
\* boto3.client leaves the handler
InitClientsFail ==
  /\ pc = "enter"
  /\ \E e \in ErrorTexts : escaped' = e
  /\ pc' = "raised"
  /\ UNCHANGED <<fetchVars, bedrock_summary, csv_data, calls, s3_objects,
                 result, fmtVars>>

\* lines 303-304: one page of summaries
FetchSummariesPage ==
  /\ pc = "fetch_summaries"
  /\ \E items \in SeqsUpTo(CatalogSummaries, MaxPageItems) :
       /\ items # <<>>
       /\ Len(summaries) + Len(items) <= MaxCatalogSummaries
       /\ summaries' = summaries \o items
  /\ UNCHANGED <<pc, findings, page, listed, detail_failed, drained,
                 bedrock_summary, csv_data, calls, s3_objects, result,
                 escaped, fmtVars>>

\* line 303: the summaries pagination is exhausted
FetchSummariesEnd ==
  /\ pc = "fetch_summaries"
  /\ drained' = drained \cup {"summaries"}
  /\ pc' = "list_recommendations"
  /\ UNCHANGED <<summaries, findings, page, listed, detail_failed,
                 bedrock_summary, csv_data, calls, s3_objects, result,
                 escaped, fmtVars>>

\* line 303: the summaries pagination raises
FetchSummariesFail ==
  /\ pc = "fetch_summaries"
  /\ \E e \in ErrorTexts : Return500(e)
  /\ UNCHANGED <<fetchVars, bedrock_summary, csv_data, calls, s3_objects,
                 escaped, fmtVars>>

\* line 313: one page of recommendation identifiers
ListRecommendationsPage ==
  /\ pc = "list_recommendations"
  /\ \E items \in SeqsUpTo(Ids, MaxPageItems) :
       /\ items # <<>>
       /\ \A i \in 1..Len(items) :
            /\ \A j \in 1..Len(listed) : listed[j] # items[i]
            /\ \A j \in 1..Len(items) : j # i => items[j] # items[i]
       /\ page' = items
       /\ listed' = listed \o items
  /\ pc' = "get_recommendation"
  /\ UNCHANGED <<summaries, findings, detail_failed, drained,
                 bedrock_summary, csv_data, calls, s3_objects, result,
                 escaped, fmtVars>>

\* line 313: the recommendations pagination is exhausted
ListRecommendationsEnd ==
  /\ pc = "list_recommendations"
  /\ drained' = drained \cup {"recommendations"}
  /\ pc' = "check"
  /\ UNCHANGED <<summaries, findings, page, listed, detail_failed,
                 bedrock_summary, csv_data, calls, s3_objects, result,
                 escaped, fmtVars>>

\* line 313: the recommendations pagination raises
ListRecommendationsFail ==
  /\ pc = "list_recommendations"
  /\ \E e \in ErrorTexts : Return500(e)
  /\ UNCHANGED <<fetchVars, bedrock_summary, csv_data, calls, s3_objects,
                 escaped, fmtVars>>

\* mutant: the loop over the items of a page stops after its first item
AfterItem_NextPage(rest) == "list_recommendations"

\* line 314: the next item of the page, or the next page
AfterItem(rest) == IF rest = <<>> THEN "list_recommendations"
                   ELSE "get_recommendation"

\* lines 315-320: the detail request of the next identifier succeeds
GetRecommendationOk ==
  /\ pc = "get_recommendation"
  /\ page # <<>>
  /\ LET recommendation_id == Head(page)
     IN /\ calls' = Append(calls,
                      Call("get_recommendation", recommendation_id, None))
        /\ findings' = Append(findings, Detail(recommendation_id))
  /\ page' = Tail(page)
  /\ pc' = AfterItem(Tail(page))
  /\ UNCHANGED <<summaries, listed, detail_failed, drained, bedrock_summary,
                 csv_data, s3_objects, result, escaped, fmtVars>>

\* mutant: no inner try, a detail failure reaches the top-level except
GetRecommendationFail_Fatal ==
  /\ pc = "get_recommendation"
  /\ page # <<>>
  /\ \E e \in ErrorTexts :
       /\ calls' = Append(calls, Call("get_recommendation", Head(page), e))
       /\ Return500(e)
  /\ detail_failed' = detail_failed \cup {Head(page)}
  /\ page' = Tail(page)
  /\ UNCHANGED <<summaries, findings, listed, drained, bedrock_summary,
                 csv_data, s3_objects, escaped, fmtVars>>

\* lines 321-323: the detail request raises; logged, next identifier
GetRecommendationFail ==
  /\ pc = "get_recommendation"
  /\ page # <<>>
  /\ LET recommendation_id == Head(page)
     IN /\ \E e \in ErrorTexts :
             calls' = Append(calls,
                        Call("get_recommendation", recommendation_id, e))
        /\ detail_failed' = detail_failed \cup {recommendation_id}
  /\ page' = Tail(page)
  /\ pc' = AfterItem(Tail(page))
  /\ UNCHANGED <<summaries, findings, listed, drained, bedrock_summary,
                 csv_data, s3_objects, result, escaped, fmtVars>>

\* mutant: the short-circuit taken only when both lists are empty
HasData_Or == summaries # <<>> \/ findings # <<>>

\* line 327
HasData == summaries # <<>> /\ findings # <<>>

\* lines 327, 374-379
CheckData ==
  /\ pc = "check"
  /\ IF HasData
     THEN /\ pc' = "bedrock"
          /\ UNCHANGED result
     ELSE /\ result' = [ statusCode |-> 200, body |-> NoRecommendationsBody ]
          /\ pc' = "returned"
  /\ UNCHANGED <<fetchVars, bedrock_summary, csv_data, calls, s3_objects,
                 escaped, fmtVars>>

\* line 70: the inference client cannot be built
BedrockClientFail ==
  /\ pc = "bedrock"
  /\ \E e \in ErrorTexts : Return500(e)
  /\ UNCHANGED <<fetchVars, bedrock_summary, csv_data, calls, s3_objects,
                 escaped, fmtVars>>

\* lines 330, 133-139: the inference call returns the narrative
InvokeModelOk ==
  /\ pc = "bedrock"
  /\ \E text \in Narratives : bedrock_summary' = text
  /\ calls' = Append(calls,
                Call("invoke_model", BedrockRequest(summaries, findings), None))
  /\ pc' = "csv"
  /\ UNCHANGED <<fetchVars, csv_data, s3_objects, result, escaped, fmtVars>>

\* line 133: the inference call raises
InvokeModelFail ==
  /\ pc = "bedrock"
  /\ \E e \in ErrorTexts :
       /\ calls' = Append(calls,
                     Call("invoke_model", BedrockRequest(summaries, findings),
                          e))
       /\ Return500(e)
  /\ UNCHANGED <<fetchVars, bedrock_summary, csv_data, s3_objects, escaped,
                 fmtVars>>

\* lines 138-139: the response has no content[0].text
InvokeModelMalformed ==
  /\ pc = "bedrock"
  /\ calls' = Append(calls,
                Call("invoke_model", BedrockRequest(summaries, findings),
                     None))
  /\ Return500("'content'")
  /\ UNCHANGED <<fetchVars, bedrock_summary, csv_data, s3_objects, escaped,
                 fmtVars>>

\* lines 334-344
CreateCsvReport ==
  /\ pc = "csv"
  /\ csv_data' = CreateCsv(findings)
  /\ pc' = "put"
  /\ UNCHANGED <<fetchVars, bedrock_summary, calls, s3_objects, result,
                 escaped, fmtVars>>

\* lines 347-348
file_name == "cost_optimization_recommendations_<timestamp>.csv"

\* lines 351-355: the storage write succeeds
PutObjectOk ==
  /\ pc = "put"
  /\ calls' = Append(calls, Call("put_object", file_name, None))
  /\ s3_objects' = s3_objects \cup { [ Key |-> file_name, Body |-> csv_data ] }
  /\ pc' = "email"
  /\ UNCHANGED <<fetchVars, bedrock_summary, csv_data, result, escaped,
                 fmtVars>>

\* mutant: a failed storage write is tried again before the email step
PutObjectFail_Retry ==
  /\ pc = "put"
  /\ \E e \in ErrorTexts :
       calls' = calls \o << Call("put_object", file_name, e),
                            Call("put_object", file_name, None) >>
  /\ s3_objects' = s3_objects \cup { [ Key |-> file_name, Body |-> csv_data ] }
  /\ pc' = "email"
  /\ UNCHANGED <<fetchVars, bedrock_summary, csv_data, result, escaped,
                 fmtVars>>

\* lines 351-355: the storage write raises
PutObjectFail ==
  /\ pc = "put"
  /\ \E e \in ErrorTexts :
       /\ calls' = Append(calls, Call("put_object", file_name, e))
       /\ Return500(e)
  /\ UNCHANGED <<fetchVars, bedrock_summary, csv_data, s3_objects, escaped,
                 fmtVars>>

\* line 142: the email client cannot be built
SesClientFail ==
  /\ pc = "email"
  /\ \E e \in ErrorTexts : Return500(e)
  /\ UNCHANGED <<fetchVars, bedrock_summary, csv_data, calls, s3_objects,
                 escaped, fmtVars>>

\* lines 360-373, 144-277: the email is sent, the handler reports success
SendEmailOk ==
  /\ pc = "email"
  /\ calls' = Append(calls,
                Call("send_raw_email",
                     BuildMessage(summaries, bedrock_summary, csv_data,
                                  findings),
                     None))
  /\ result' = [ statusCode |-> 200, body |-> SuccessBody(findings) ]
  /\ pc' = "returned"
  /\ UNCHANGED <<fetchVars, bedrock_summary, csv_data, s3_objects, escaped,
                 fmtVars>>

\* mutant: the written object is deleted when the email cannot be sent
SendEmailFail_Cleanup ==
  /\ pc = "email"
  /\ \E e \in ErrorTexts :
       /\ calls' = calls \o
            << Call("send_raw_email",
                    BuildMessage(summaries, bedrock_summary, csv_data,
                                 findings),
                    e),
               Call("delete_object", file_name, None) >>
       /\ Return500(e)
  /\ s3_objects' = {}
  /\ UNCHANGED <<fetchVars, bedrock_summary, csv_data, escaped, fmtVars>>

\* lines 271-280: send_raw_email raises; logged and raised again
SendEmailFail ==
  /\ pc = "email"
  /\ \E e \in ErrorTexts :
       /\ calls' = Append(calls,
                     Call("send_raw_email",
                          BuildMessage(summaries, bedrock_summary, csv_data,
                                       findings),
                          e))
       /\ Return500(e)
  /\ UNCHANGED <<fetchVars, bedrock_summary, csv_data, s3_objects, escaped,
                 fmtVars>>

lambda_handler ==
  \/ InitClients
  \/ InitClientsFail
  \/ FetchSummariesPage
  \/ FetchSummariesEnd
  \/ FetchSummariesFail
  \/ ListRecommendationsPage
  \/ ListRecommendationsEnd
  \/ ListRecommendationsFail
  \/ GetRecommendationOk
  \/ GetRecommendationFail
  \/ CheckData
  \/ BedrockClientFail
  \/ InvokeModelOk
  \/ InvokeModelFail
  \/ InvokeModelMalformed
  \/ CreateCsvReport
  \/ PutObjectOk
  \/ PutObjectFail
  \/ SesClientFail
  \/ SendEmailOk
  \/ SendEmailFail

Next == lambda_handler

Spec == Init /\ [][Next]_vars

----------------------------------------------------------------------------
(* format_recommendation_summaries on bounded inputs *)

handlerVars == <<page, listed, detail_failed, drained, bedrock_summary,
                 calls, s3_objects, result, escaped>>

InitFmt ==
  /\ pc = "fmt_call"
  /\ summaries \in SeqsUpTo(SummaryTemplates, MaxSummaries)
  /\ findings \in SeqsUpTo(FindingTemplates, MaxFindings)
  /\ page = <<>>
  /\ listed = <<>>
  /\ detail_failed = {}
  /\ drained = {}
  /\ bedrock_summary = None
  /\ csv_data = None
  /\ calls = <<>>
  /\ s3_objects = {}
  /\ result = None
  /\ escaped = None
  /\ resource_summary = <<>>
  /\ table_html = <<>>
  /\ total_savings = 0

\* lines 12-30: the loop over the summaries has built the mapping
FmtAggregate ==
  /\ pc = "fmt_call"
  /\ resource_summary' = BuildResourceSummary(<<>>, summaries, findings)
  /\ pc' = "fmt_render"
  /\ UNCHANGED <<summaries, findings, csv_data, table_html, total_savings,
                 handlerVars>>

\* lines 32-67: the table is rendered and the function returns
FmtReturn ==
  /\ pc = "fmt_render"
  /\ LET formatted == format_recommendation_summaries(summaries, findings)
     IN /\ table_html' = formatted[1]
        /\ total_savings' = formatted[2]
  /\ pc' = "fmt_done"
  /\ UNCHANGED <<summaries, findings, csv_data, resource_summary, handlerVars>>

NextFmt == FmtAggregate \/ FmtReturn

SpecFmt == InitFmt /\ [][NextFmt]_vars

----------------------------------------------------------------------------
(* the CSV block on bounded inputs *)

InitCsv ==
  /\ pc = "csv_call"
  /\ summaries = <<>>
  /\ findings \in SeqsUpTo(FindingTemplates, MaxCsvFindings)
  /\ findings # <<>>
  /\ page = <<>>
  /\ listed = <<>>
  /\ detail_failed = {}
  /\ drained = {}
  /\ bedrock_summary = None
  /\ csv_data = None
  /\ calls = <<>>
  /\ s3_objects = {}
  /\ result = None
  /\ escaped = None
  /\ resource_summary = <<>>
  /\ table_html = <<>>
  /\ total_savings = 0

\* lines 334-344
CsvWrite ==
  /\ pc = "csv_call"
  /\ csv_data' = CreateCsv(findings)
  /\ pc' = "csv_done"
  /\ UNCHANGED <<summaries, findings, fmtVars, handlerVars>>

NextCsv == CsvWrite

SpecCsv == InitCsv /\ [][NextCsv]_vars


----------------------------------------------------------------------------
(* Properties of lambda_handler (specification Spec) *)

PublishOps == { "invoke_model", "put_object", "send_raw_email" }

CallsOf(op) == { i \in 1..Len(calls) : calls[i].op = op }

BothDrained == drained = { "summaries", "recommendations" }

IsDetailCall(c) == c.op = "get_recommendation"

\* the identifiers of the detail requests, in the order they were issued
Requested ==
  LET G == SelectSeq(calls, IsDetailCall)
  IN [ i \in 1..Len(G) |-> G[i].arg ]

\* C1: when both paginations completed and summaries or findings is empty,
\* the handler returns 200 with the no-recommendations body and issues no
\* inference call, no storage write and no email send.
C1_EmptyShortCircuit ==
  (BothDrained /\ (summaries = <<>> \/ findings = <<>>))
    => /\ \A i \in 1..Len(calls) : calls[i].op \notin PublishOps
       /\ s3_objects = {}
       /\ pc \in { "check", "returned" }
       /\ pc = "returned" =>
            result = [ statusCode |-> 200, body |-> NoRecommendationsBody ]

\* summaries non-empty, every detail request failed: the mixed case
C1_Witness ==
  /\ pc = "returned"
  /\ BothDrained
  /\ summaries # <<>>
  /\ listed # <<>>
  /\ findings = <<>>
  /\ result.statusCode = 200

\* C2: a failed inference call, storage write or email send makes the
\* handler return 500 with the error text in the body, and none of the three
\* requests is issued more than once in an invocation.
C2_PublishFailureIs500 ==
  /\ \A op \in PublishOps : Cardinality(CallsOf(op)) <= 1
  /\ \A i \in 1..Len(calls) :
       (calls[i].op \in PublishOps /\ calls[i].error # None)
         => /\ pc = "returned"
            /\ result.statusCode = 500
            /\ \E k \in 1..Len(result.body) : result.body[k] = calls[i].error

\* the storage write failed after the inference call had succeeded
C2_Witness ==
  /\ pc = "returned"
  /\ \E i \in CallsOf("put_object") : calls[i].error = "AccessDenied"
  /\ \E i \in CallsOf("invoke_model") : calls[i].error = None

\* what the detail requests issued so far have left in findings
DetailOutcome ==
  /\ \A i \in CallsOf("get_recommendation") :
       IF calls[i].error = None
       THEN \E j \in 1..Len(findings) : findings[j] = Detail(calls[i].arg)
       ELSE \A j \in 1..Len(findings) :
              findings[j].recommendationId # ToString(calls[i].arg)
  /\ Len(findings) =
       Cardinality({ i \in CallsOf("get_recommendation") :
                       calls[i].error = None })

\* C3: findings holds the detail of every identifier whose request
\* succeeded and nothing for one whose request failed, and the step in which
\* a detail request fails goes on to the next identifier or page without
\* returning.
C3_DetailFailureNotFatal ==
  /\ []DetailOutcome
  /\ [][ detail_failed' # detail_failed
           => /\ pc' \in { "get_recommendation", "list_recommendations" }
              /\ result' = result
              /\ escaped' = escaped
              /\ findings' = findings ]_vars

\* a request failed, a later one succeeded, and the run ended in success
C3_Witness ==
  /\ pc = "returned"
  /\ result = [ statusCode |-> 200, body |-> SuccessBody(findings) ]
  /\ \E i, j \in CallsOf("get_recommendation") :
       i < j /\ calls[i].error # None /\ calls[j].error = None

\* C4: every invocation ends by returning a result with statusCode 200 or
\* 500 and no exception leaves the handler, whichever step fails, the
\* construction of the clients included.
C4_NoExceptionEscapes ==
  /\ escaped = None
  /\ pc \in { "returned", "raised" }
       => /\ pc = "returned"
          /\ result.statusCode \in { 200, 500 }

\* C9: put_object only after invoke_model returned a narrative,
\* send_raw_email only after put_object succeeded; when the email send
\* fails the handler returns 500 and the object written stays in storage,
\* no delete or other storage request being issued.
C9_PublishOrder ==
  /\ \A i \in CallsOf("put_object") :
       /\ \E j \in 1..(i - 1) :
            calls[j].op = "invoke_model" /\ calls[j].error = None
       /\ bedrock_summary \in Narratives
  /\ \A i \in CallsOf("send_raw_email") :
       \E j \in 1..(i - 1) :
         calls[j].op = "put_object" /\ calls[j].error = None
  /\ \A i \in CallsOf("send_raw_email") :
       calls[i].error # None
         => /\ pc = "returned"
            /\ result.statusCode = 500
            /\ [ Key |-> file_name, Body |-> csv_data ] \in s3_objects
  /\ \A i \in 1..Len(calls) :
       calls[i].op \in PublishOps \cup { "get_recommendation" }
  /\ Cardinality(CallsOf("put_object")) <= 1

\* the email send failed after the object was written
C9_Witness ==
  /\ pc = "returned"
  /\ \E i \in CallsOf("send_raw_email") : calls[i].error # None
  /\ s3_objects # {}

\* the details of the requests that succeeded, in request order
RECURSIVE SucceededDetails(_)
SucceededDetails(G) ==
  IF G = <<>> THEN <<>>
  ELSE IF Head(G).error = None
       THEN << Detail(Head(G).arg) >> \o SucceededDetails(Tail(G))
       ELSE SucceededDetails(Tail(G))

\* C10: the detail requests are issued once per listed identifier in
\* catalog order, findings is that sequence without the failed ones, and no
\* inference, storage or email request is issued before both paginations
\* are drained and every listed identifier has had its request.
C10_DetailOrder ==
  /\ Requested = SubSeq(listed, 1, Len(listed) - Len(page))
  /\ page = SubSeq(listed, Len(listed) - Len(page) + 1, Len(listed))
  /\ findings = SucceededDetails(SelectSeq(calls, IsDetailCall))
  /\ "recommendations" \in drained => Requested = listed
  /\ (\E i \in 1..Len(calls) : calls[i].op \in PublishOps)
       => /\ BothDrained
          /\ Requested = listed
          /\ \A i \in 1..Len(calls) : \A j \in 1..Len(calls) :
               (IsDetailCall(calls[i]) /\ calls[j].op \in PublishOps) => i < j

\* three identifiers listed out of numeric order over two pages, one failed
C10_Witness ==
  /\ pc = "returned"
  /\ result.statusCode = 200
  /\ Len(listed) = 3
  /\ listed[1] > listed[2]
  /\ detail_failed # {}
  /\ \E i \in 1..Len(calls) : calls[i].op = "send_raw_email"


----------------------------------------------------------------------------
(* Properties of format_recommendation_summaries (specification SpecFmt) *)

GroupOf(summary) ==
  IF "group" \in DOMAIN summary THEN summary.group ELSE "Unknown"

AmountOf(summary) ==
  IF "estimatedMonthlySavings" \in DOMAIN summary
  THEN summary.estimatedMonthlySavings ELSE 0

Groups == { GroupOf(summaries[i]) : i \in 1..Len(summaries) }

Amounts(ss) == [ i \in 1..Len(ss) |-> AmountOf(ss[i]) ]

\* the sum of a sequence of amounts as a real number
RECURSIVE ExactSum(_)
ExactSum(xs) == IF xs = <<>> THEN 0 ELSE Head(xs) + ExactSum(Tail(xs))

\* the sum of a sequence of amounts in floating point, left to right
RECURSIVE FloatSum(_)
FloatSum(xs) ==
  IF xs = <<>> THEN 0
  ELSE Round(FloatSum(SubSeq(xs, 1, Len(xs) - 1)) + xs[Len(xs)])

\* the amounts of the summaries of one group, in input order
GroupAmounts(g) ==
  LET HasGroup(summary) == GroupOf(summary) = g
  IN Amounts(SelectSeq(summaries, HasGroup))

FirstOccurrence(g) ==
  CHOOSE i \in 1..Len(summaries) :
    /\ GroupOf(summaries[i]) = g
    /\ \A j \in 1..(i - 1) : GroupOf(summaries[j]) # g

\* the cumulative savings of the resource type shown in row i of the table
RowSavings(i) ==
  LET e == CHOOSE k \in 1..Len(resource_summary) :
             resource_summary[k].resource_type = table_html[i].resource_type
  IN resource_summary[e].savings

ResourceRows == 1..(Len(table_html) - 1)

Abs(x) == IF x < 0 THEN 0 - x ELSE x

\* C5 as stated: the returned total equals the sum of the savings of the
\* rendered rows, and equals the sum of estimatedMonthlySavings over all
\* input summaries (read as a real sum or as a float sum in input order).
C5_TotalEqualsInputSum ==
  pc = "fmt_done"
    => /\ total_savings = FloatSum([ i \in ResourceRows |-> RowSavings(i) ])
       /\ \/ total_savings = ExactSum(Amounts(summaries))
          \/ total_savings = FloatSum(Amounts(summaries))

\* C5 as amended: the returned total, which the grand-total row shows, is
\* the floating-point sum of the savings of the rendered rows in row order;
\* it equals the sum of the input amounts up to rounding (relative error at
\* most (n-1)u/(1-(n-1)u) for n summaries and unit roundoff u = 2^-MantBits),
\* exactly when that sum needs no rounding; and it does not depend on the
\* findings.
C5_TotalWithinRounding ==
  pc = "fmt_done"
    => LET n == Len(summaries)
           exact == ExactSum(Amounts(summaries))
       IN /\ total_savings = FloatSum([ i \in ResourceRows |-> RowSavings(i) ])
          /\ table_html[Len(table_html)].savings = Fmt2(total_savings)
          /\ n = 0 => total_savings = 0
          /\ n > 0 => Abs(total_savings - exact) * (Pow2(MantBits) - (n - 1))
                        <= (n - 1) * exact
          /\ exact < Pow2(MantBits) => total_savings = exact
          /\ total_savings =
               format_recommendation_summaries(summaries, <<>>)[2]

\* two resource types, findings present, and a total that rounding moved
C5_Witness ==
  /\ pc = "fmt_done"
  /\ Len(table_html) >= 3
  /\ findings # <<>>
  /\ total_savings # ExactSum(Amounts(summaries))
  /\ total_savings # FloatSum(Amounts(summaries))

\* C6: the mapping has exactly one entry per distinct group (a missing group
\* is 'Unknown'); its savings is the sum of the amounts of the summaries of
\* that group and its actions is the set of actionType values (a missing one
\* is 'Unknown') of the findings whose currentResourceType is that group.
C6_OneEntryPerGroup ==
  pc \in { "fmt_render", "fmt_done" }
    => /\ { resource_summary[i].resource_type :
              i \in 1..Len(resource_summary) } = Groups
       /\ Len(resource_summary) = Cardinality(Groups)
       /\ \A i \in 1..Len(resource_summary) :
            LET e == resource_summary[i]
            IN /\ e.savings = FloatSum(GroupAmounts(e.resource_type))
               /\ e.actions =
                    { IF "actionType" \in DOMAIN findings[j]
                      THEN findings[j].actionType ELSE "Unknown" :
                        j \in { k \in 1..Len(findings) :
                                  /\ "currentResourceType" \in DOMAIN findings[k]
                                  /\ findings[k].currentResourceType
                                       = e.resource_type } }

\* 10.5 and 20.25 of 'EBS' give 30.75; 'Rightsize' is among the actions of
\* 'EC2Instance'
C6_Witness ==
  /\ pc = "fmt_done"
  /\ GroupAmounts("EBS") = << 42, 81 >>
  /\ \E i \in 1..Len(resource_summary) :
       /\ resource_summary[i].resource_type = "EBS"
       /\ resource_summary[i].savings = 123
  /\ \E i \in 1..Len(resource_summary) :
       /\ resource_summary[i].resource_type = "EC2Instance"
       /\ "Rightsize" \in resource_summary[i].actions

\* C7: the resource-type rows are in non-increasing order of cumulative
\* savings, one row per resource type, all before the single Total row, and
\* rows of equal savings keep the order in which their groups first occurred
\* in the summaries.
C7_RowsSortedStable ==
  pc = "fmt_done"
    => /\ Len(table_html) = Cardinality(Groups) + 1
       /\ table_html[Len(table_html)].resource_type = "Total"
       /\ { table_html[i].resource_type : i \in ResourceRows } = Groups
       /\ \A i \in ResourceRows :
            /\ table_html[i].resource_type # "Total"
            /\ table_html[i].savings = Fmt2(RowSavings(i))
       /\ \A i \in ResourceRows : \A j \in ResourceRows :
            i < j => /\ RowSavings(i) >= RowSavings(j)
                     /\ RowSavings(i) = RowSavings(j)
                          => FirstOccurrence(table_html[i].resource_type)
                               < FirstOccurrence(table_html[j].resource_type)

\* three resource types: the last one of the input leads the table, the
\* other two tie
C7_Witness ==
  /\ pc = "fmt_done"
  /\ Len(table_html) = 4
  /\ RowSavings(2) = RowSavings(3)
  /\ FirstOccurrence(table_html[1].resource_type) = 3

----------------------------------------------------------------------------
(* Properties of the CSV block (specification SpecCsv) *)

\* C8: the header is the sorted union of the keys of all findings, each key
\* once; then one row per finding in findings order, each with as many
\* fields as the header, a field holding the finding's value for a key it
\* has (None written as the empty field) and the empty field for a key it
\* lacks.
C8_CsvHeaderAndRows ==
  pc = "csv_done"
    => LET header == csv_data[1]
       IN /\ { header[j] : j \in 1..Len(header) }
               = { k \in { StrOrder[r] : r \in 1..Len(StrOrder) } :
                     \E i \in 1..Len(findings) : k \in DOMAIN findings[i] }
          /\ \A j \in 1..Len(header) : \A k \in 1..Len(header) :
               j < k => StrRank(header[j]) < StrRank(header[k])
          /\ Len(csv_data) = Len(findings) + 1
          /\ \A i \in 1..Len(findings) :
               LET row == csv_data[i + 1]
                   finding == findings[i]
               IN /\ Len(row) = Len(header)
                  /\ \A j \in 1..Len(header) :
                       row[j] = IF /\ header[j] \in DOMAIN finding
                                   /\ finding[header[j]] # None
                                THEN finding[header[j]] ELSE ""

\* two findings with different keys: a row has an empty field for a key
\* that only the other finding has
C8_Witness ==
  /\ pc = "csv_done"
  /\ Len(findings) >= 2
  /\ DOMAIN findings[1] # DOMAIN findings[2]
  /\ \E j \in 1..Len(csv_data[1]) :
       /\ csv_data[1][j] \notin DOMAIN findings[1]
       /\ csv_data[2][j] = ""
       /\ csv_data[3][j] # ""

====
